---- MODULE Spec2Model ----
(***************************************************************************)
(* Model of screenshot_rust/src/main.rs: a command-line program that       *)
(* launches a headless browser, navigates to a URL, captures a screenshot  *)
(* and reports a ScreenshotResult as JSON on standard output.              *)
(*                                                                         *)
(* The browser, the file system and the argument parser are the            *)
(* environment: every fallible call nondeterministically succeeds or       *)
(* fails, as the code's match / if-let arms distinguish.                   *)
(***************************************************************************)
EXTENDS Integers, Sequences, FiniteSets, TLC

(* ------------------------------ bounds --------------------------------- *)
MaxLen == 3          \* longest screenshot byte sequence
MaxEvents == 1       \* most Ok events the handler stream yields

(* ------------------------- program constants --------------------------- *)
DefaultQuality == 90   \* the else-branch of the quality expression
ExitPanic == 101       \* exit status of a Rust process whose main panicked
ExitUsage == 2         \* exit status of clap on malformed arguments
NoExit == 0 - 1        \* the process has not exited

(* ------------------------------ inputs --------------------------------- *)
Urls == {"https://example.com", "http://unreachable.invalid"}
Outputs == {"screenshot.png", "out/shot.jpg"}
Widths == {1920}
Heights == {1080}
Qualities == {50, 90}
Formats == {"png", "jpeg", "jpg", "webp"}
ByteValues == {0, 255}
Causes == {"timeout", "io error"}
OldContent == <<7, 7, 7, 7, 7>>

BytesUpTo(n) == UNION {[1..k -> ByteValues] : k \in 0..n}

ArgsSet ==
  [url : Urls, output : Outputs, width : Widths, height : Heights,
   full_page : BOOLEAN, quality : Qualities, format : Formats,
   base64 : BOOLEAN]

(* Option<T> *)
None == <<>>
Some(x) == <<x>>
IsSome(o) == o # <<>>
Unwrap(o) == o[1]

(* ------------------------ base64 STANDARD engine ------------------------ *)
Alphabet ==
  << "A","B","C","D","E","F","G","H","I","J","K","L","M","N","O","P",
     "Q","R","S","T","U","V","W","X","Y","Z","a","b","c","d","e","f",
     "g","h","i","j","k","l","m","n","o","p","q","r","s","t","u","v",
     "w","x","y","z","0","1","2","3","4","5","6","7","8","9","+","/" >>
Pad == "="

Sextet(n) == Alphabet[n + 1]
SextetOf(c) == (CHOOSE i \in 1..64 : Alphabet[i] = c) - 1

(* variant: the trailing 1- or 2-byte group is dropped instead of padded *)
RECURSIVE EncodeDropsTail(_)
EncodeDropsTail(b) ==
  IF Len(b) < 3 THEN <<>>
  ELSE
    LET n == b[1] * 65536 + b[2] * 256 + b[3]
    IN << Sextet(n \div 262144), Sextet((n \div 4096) % 64),
          Sextet((n \div 64) % 64), Sextet(n % 64) >>
       \o EncodeDropsTail(SubSeq(b, 4, Len(b)))

RECURSIVE Encode(_)
Encode(b) ==
  IF Len(b) = 0 THEN <<>>
  ELSE IF Len(b) = 1 THEN
    LET n == b[1] * 65536
    IN << Sextet(n \div 262144), Sextet((n \div 4096) % 64), Pad, Pad >>
  ELSE IF Len(b) = 2 THEN
    LET n == b[1] * 65536 + b[2] * 256
    IN << Sextet(n \div 262144), Sextet((n \div 4096) % 64),
          Sextet((n \div 64) % 64), Pad >>
  ELSE
    LET n == b[1] * 65536 + b[2] * 256 + b[3]
    IN << Sextet(n \div 262144), Sextet((n \div 4096) % 64),
          Sextet((n \div 64) % 64), Sextet(n % 64) >>
       \o Encode(SubSeq(b, 4, Len(b)))

RECURSIVE Decode(_)
Decode(c) ==
  IF Len(c) = 0 THEN <<>>
  ELSE
    LET q == SubSeq(c, 1, 4)
        rest == SubSeq(c, 5, Len(c))
        s1 == SextetOf(q[1])
        s2 == SextetOf(q[2])
    IN IF q[3] = Pad THEN
         << (s1 * 4 + s2 \div 16) % 256 >>
       ELSE IF q[4] = Pad THEN
         LET s3 == SextetOf(q[3])
         IN << (s1 * 4 + s2 \div 16) % 256,
               ((s2 % 16) * 16 + s3 \div 4) % 256 >>
       ELSE
         LET s3 == SextetOf(q[3])
             s4 == SextetOf(q[4])
         IN << (s1 * 4 + s2 \div 16) % 256,
               ((s2 % 16) * 16 + s3 \div 4) % 256,
               ((s3 % 4) * 64 + s4) % 256 >>
            \o Decode(rest)

(* ------------------------------- state ---------------------------------- *)
VARIABLES
  pc,          \* position of main / take_screenshot
  args,        \* Option<Args>
  result,      \* Option<ScreenshotResult>: the value take_screenshot returned
  request,     \* Option<CaptureScreenshotParams> sent to the page
  data,        \* screenshot_data
  stdout,      \* documents printed so far
  exitCode,    \* exit status, NoExit while running
  fs,          \* path -> Option<bytes>
  writes,      \* fs::write calls made, in order
  steps,       \* steps started, in order
  failed,      \* the step whose failure ended the sequence, or "none"
  handler,     \* the spawned handler task
  spawned,     \* number of tokio::task::spawn calls
  drained,     \* number of Ok events the handler task consumed
  lastEvent    \* what handler.next() yielded last

vars == << pc, args, result, request, data, stdout, exitCode, fs, writes,
           steps, failed, handler, spawned, drained, lastEvent >>

A == Unwrap(args)

Init ==
  /\ pc = "parse"
  /\ args = None
  /\ result = None
  /\ request = None
  /\ data = <<>>
  /\ stdout = <<>>
  /\ exitCode = NoExit
  /\ fs \in [Outputs -> {None, Some(OldContent)}]
  /\ writes = <<>>
  /\ steps = <<>>
  /\ failed = "none"
  /\ handler = "unspawned"
  /\ spawned = 0
  /\ drained = 0
  /\ lastEvent = "none"

(* --------------------------- result building ---------------------------- *)
(* format!("<prefix>{}", e) *)
Format(prefix, e) == prefix \o e

(* variant: the failure literal without its error message *)
FailureNoError(a, size, msg) ==
  [success |-> FALSE, url |-> a.url, width |-> a.width, height |-> a.height,
   full_page |-> a.full_page, format |-> a.format, quality |-> a.quality,
   size |-> size, base64_data |-> None, file_path |-> None,
   error |-> None]

(* variant: every failure literal says size: 0, the write failure too *)
FailureSizeZero(a, size, msg) ==
  [success |-> FALSE, url |-> a.url, width |-> a.width, height |-> a.height,
   full_page |-> a.full_page, format |-> a.format, quality |-> a.quality,
   size |-> 0, base64_data |-> None, file_path |-> None,
   error |-> Some(msg)]

(* the failure literal repeated at every early return of take_screenshot *)
Failure(a, size, msg) ==
  [success |-> FALSE, url |-> a.url, width |-> a.width, height |-> a.height,
   full_page |-> a.full_page, format |-> a.format, quality |-> a.quality,
   size |-> size, base64_data |-> None, file_path |-> None,
   error |-> Some(msg)]

CaptureFormat(fmt) == IF fmt \in {"jpeg", "jpg"} THEN "Jpeg" ELSE "Png"

CaptureQuality(a) == IF a.format = "jpeg" THEN a.quality ELSE DefaultQuality

ScreenshotParams(a) ==
  [format |-> CaptureFormat(a.format), quality |-> CaptureQuality(a),
   capture_beyond_viewport |-> a.full_page]

(* variant: the base64 literal also names the output path *)
Base64ResultWithPath(a, d) ==
  [success |-> TRUE, url |-> a.url, width |-> a.width, height |-> a.height,
   full_page |-> a.full_page, format |-> a.format, quality |-> a.quality,
   size |-> Len(d), base64_data |-> Some(Encode(d)),
   file_path |-> Some(a.output), error |-> None]

Base64Result(a, d) ==
  [success |-> TRUE, url |-> a.url, width |-> a.width, height |-> a.height,
   full_page |-> a.full_page, format |-> a.format, quality |-> a.quality,
   size |-> Len(d), base64_data |-> Some(Encode(d)), file_path |-> None,
   error |-> None]

FileResult(a, d) ==
  [success |-> TRUE, url |-> a.url, width |-> a.width, height |-> a.height,
   full_page |-> a.full_page, format |-> a.format, quality |-> a.quality,
   size |-> Len(d), base64_data |-> None, file_path |-> Some(a.output),
   error |-> None]

(* serde_json::to_string_pretty: every field in declaration order, an       *)
(* Option that is None serialised as null                                   *)
JBool(b) == [t |-> "bool", b |-> b]
JNum(n) == [t |-> "number", n |-> n]
JStr(s) == [t |-> "string", s |-> s]
JNull == [t |-> "null"]
JOptStr(o) == IF IsSome(o) THEN JStr(Unwrap(o)) ELSE JNull
JOptChars(o) == IF IsSome(o) THEN [t |-> "string", chars |-> Unwrap(o)] ELSE JNull

ToJson(r) ==
  << <<"success", JBool(r.success)>>,
     <<"url", JStr(r.url)>>,
     <<"width", JNum(r.width)>>,
     <<"height", JNum(r.height)>>,
     <<"full_page", JBool(r.full_page)>>,
     <<"format", JStr(r.format)>>,
     <<"quality", JNum(r.quality)>>,
     <<"size", JNum(r.size)>>,
     <<"base64_data", JOptChars(r.base64_data)>>,
     <<"file_path", JOptStr(r.file_path)>>,
     <<"error", JOptStr(r.error)>> >>

(* what clap prints for --help / --version *)
HelpText == << <<"help", JStr("Usage: screenshot_rust --url <URL>")>> >>

(* the runtime drops the spawned task when the process ends *)
Killed(h) == IF h = "running" THEN "killed" ELSE h

StrictPrefixes(d) == {SubSeq(d, 1, k) : k \in 0..(Len(d) - 1)}

(* ------------------------------- main ----------------------------------- *)
(* Args::parse() returns the parsed arguments *)
ParseArgs ==
  /\ pc = "parse"
  /\ \E a \in ArgsSet : args' = Some(a)
  /\ pc' = "launch"
  /\ UNCHANGED << result, request, data, stdout, exitCode, fs, writes, steps,
                  failed, handler, spawned, drained, lastEvent >>

(* Args::parse() ends the process itself: usage error, or --help/--version *)
ParseExit ==
  /\ pc = "parse"
  /\ pc' = "clap_exit"
  /\ \/ /\ exitCode' = ExitUsage
        /\ stdout' = stdout
     \/ /\ exitCode' = 0
        /\ stdout' = Append(stdout, HelpText)
  /\ UNCHANGED << args, result, request, data, fs, writes, steps, failed,
                  handler, spawned, drained, lastEvent >>

(* to_string_pretty(&result)? ; println! *)
MainPrint ==
  /\ pc = "print"
  /\ \/ /\ stdout' = Append(stdout, ToJson(Unwrap(result)))
        /\ pc' = "return"
        /\ UNCHANGED << exitCode, handler >>
     \/ /\ pc' = "panicked"          \* println! panics when stdout is closed
        /\ exitCode' = ExitPanic
        /\ handler' = Killed(handler)
        /\ stdout' = stdout
  /\ UNCHANGED << args, result, request, data, fs, writes, steps, failed,
                  spawned, drained, lastEvent >>

(* variant: the exit status reflects the Result's success flag *)
MainReturnFailureCode ==
  /\ pc = "return"
  /\ pc' = "done"
  /\ exitCode' = IF Unwrap(result).success THEN 0 ELSE 1
  /\ handler' = Killed(handler)
  /\ UNCHANGED << args, result, request, data, stdout, fs, writes, steps,
                  failed, spawned, drained, lastEvent >>

(* Ok(()) *)
MainReturn ==
  /\ pc = "return"
  /\ pc' = "done"
  /\ exitCode' = 0
  /\ handler' = Killed(handler)
  /\ UNCHANGED << args, result, request, data, stdout, fs, writes, steps,
                  failed, spawned, drained, lastEvent >>

(* --------------------------- take_screenshot ---------------------------- *)
Launch ==
  /\ pc = "launch"
  /\ steps' = Append(steps, "launch")
  /\ \/ /\ pc' = "panicked"          \* BrowserConfig build() is Err: unwrap
        /\ failed' = "build"
        /\ exitCode' = ExitPanic
        /\ result' = result
     \/ \E e \in Causes :
          /\ result' = Some(Failure(A, 0, Format("Failed to launch browser: ", e)))
          /\ failed' = "launch"
          /\ pc' = "print"
          /\ exitCode' = exitCode
     \/ /\ pc' = "spawn"
        /\ UNCHANGED << result, failed, exitCode >>
  /\ UNCHANGED << args, request, data, stdout, fs, writes, handler, spawned,
                  drained, lastEvent >>

SpawnHandler ==
  /\ pc = "spawn"
  /\ spawned' = spawned + 1
  /\ handler' = "running"
  /\ pc' = "new_page"
  /\ UNCHANGED << args, result, request, data, stdout, exitCode, fs, writes,
                  steps, failed, drained, lastEvent >>

NewPage ==
  /\ pc = "new_page"
  /\ steps' = Append(steps, "new_page")
  /\ \/ \E e \in Causes :
          /\ result' = Some(Failure(A, 0, Format("Failed to create new page: ", e)))
          /\ failed' = "new_page"
          /\ pc' = "print"
     \/ /\ pc' = "goto"
        /\ UNCHANGED << result, failed >>
  /\ UNCHANGED << args, request, data, stdout, exitCode, fs, writes, handler,
                  spawned, drained, lastEvent >>

(* variant: a failed navigation is tried again *)
GotoRetry ==
  /\ pc = "goto"
  /\ steps' = Append(steps, "navigate")
  /\ \/ /\ pc' = "goto"
        /\ UNCHANGED << result, failed >>
     \/ /\ pc' = "wait_for_navigation"
        /\ UNCHANGED << result, failed >>
  /\ UNCHANGED << args, request, data, stdout, exitCode, fs, writes, handler,
                  spawned, drained, lastEvent >>

Goto ==
  /\ pc = "goto"
  /\ steps' = Append(steps, "navigate")
  /\ \/ \E e \in Causes :
          /\ result' = Some(Failure(A, 0, Format("Failed to navigate to URL: ", e)))
          /\ failed' = "navigate"
          /\ pc' = "print"
     \/ /\ pc' = "wait_for_navigation"
        /\ UNCHANGED << result, failed >>
  /\ UNCHANGED << args, request, data, stdout, exitCode, fs, writes, handler,
                  spawned, drained, lastEvent >>

WaitForNavigation ==
  /\ pc = "wait_for_navigation"
  /\ steps' = Append(steps, "wait_for_navigation")
  /\ \/ \E e \in Causes :
          /\ result' = Some(Failure(A, 0, Format("Failed to wait for navigation: ", e)))
          /\ failed' = "wait_for_navigation"
          /\ pc' = "print"
     \/ /\ pc' = "sleep"
        /\ UNCHANGED << result, failed >>
  /\ UNCHANGED << args, request, data, stdout, exitCode, fs, writes, handler,
                  spawned, drained, lastEvent >>

Sleep ==
  /\ pc = "sleep"
  /\ steps' = Append(steps, "sleep")
  /\ pc' = "screenshot"
  /\ UNCHANGED << args, result, request, data, stdout, exitCode, fs, writes,
                  failed, handler, spawned, drained, lastEvent >>

Screenshot ==
  /\ pc = "screenshot"
  /\ steps' = Append(steps, "capture")
  /\ request' = Some(ScreenshotParams(A))
  /\ \/ \E e \in Causes :
          /\ result' = Some(Failure(A, 0, Format("Failed to capture screenshot: ", e)))
          /\ failed' = "capture"
          /\ pc' = "print"
          /\ data' = data
     \/ \E d \in BytesUpTo(MaxLen) :
          /\ data' = d
          /\ pc' = "export"
          /\ UNCHANGED << result, failed >>
  /\ UNCHANGED << args, stdout, exitCode, fs, writes, handler, spawned,
                  drained, lastEvent >>

ExportBase64 ==
  /\ pc = "export"
  /\ A.base64
  /\ steps' = Append(steps, "export")
  /\ result' = Some(Base64Result(A, data))
  /\ pc' = "print"
  /\ UNCHANGED << args, request, data, stdout, exitCode, fs, writes, failed,
                  handler, spawned, drained, lastEvent >>

(* variant: the file is written whether or not base64 was asked for *)
ExportFileAlways ==
  /\ pc = "export"
  /\ steps' = Append(steps, "export")
  /\ writes' = Append(writes, [path |-> A.output, contents |-> data])
  /\ fs' = [fs EXCEPT ![A.output] = Some(data)]
  /\ result' = Some(IF A.base64 THEN Base64Result(A, data) ELSE FileResult(A, data))
  /\ failed' = failed
  /\ pc' = "print"
  /\ UNCHANGED << args, request, data, stdout, exitCode, handler, spawned,
                  drained, lastEvent >>

ExportFile ==
  /\ pc = "export"
  /\ ~A.base64
  /\ steps' = Append(steps, "export")
  /\ writes' = Append(writes, [path |-> A.output, contents |-> data])
  /\ \/ \E e \in Causes :
          /\ \E left \in {fs[A.output]} \cup {Some(p) : p \in StrictPrefixes(data)} :
               fs' = [fs EXCEPT ![A.output] = left]
          /\ result' = Some(Failure(A, Len(data),
                                    Format("Failed to save screenshot to file: ", e)))
          /\ failed' = "write"
     \/ /\ fs' = [fs EXCEPT ![A.output] = Some(data)]
        /\ result' = Some(FileResult(A, data))
        /\ failed' = failed
  /\ pc' = "print"
  /\ UNCHANGED << args, request, data, stdout, exitCode, handler, spawned,
                  drained, lastEvent >>

(* ----------------------- the spawned handler task ------------------------ *)
(* handler.next() yields Some(Ok(_)): the loop goes round *)
HandlerOk ==
  /\ handler = "running"
  /\ drained < MaxEvents
  /\ drained' = drained + 1
  /\ lastEvent' = "ok"
  /\ UNCHANGED << pc, args, result, request, data, stdout, exitCode, fs,
                  writes, steps, failed, handler, spawned >>

(* variant: an error on the event stream ends the run with a failure *)
HandlerErrAborts ==
  /\ handler = "running"
  /\ lastEvent' = "err"
  /\ handler' = "stopped"
  /\ IF result = None /\ pc \in {"new_page", "goto", "wait_for_navigation",
                                 "sleep", "screenshot", "export"}
       THEN /\ result' = Some(Failure(A, 0, "Browser connection failed"))
            /\ pc' = "print"
       ELSE UNCHANGED << result, pc >>
  /\ UNCHANGED << args, request, data, stdout, exitCode, fs, writes, steps,
                  failed, spawned, drained >>

(* handler.next() yields Some(Err(_)): break *)
HandlerErr ==
  /\ handler = "running"
  /\ lastEvent' = "err"
  /\ handler' = "stopped"
  /\ UNCHANGED << pc, args, result, request, data, stdout, exitCode, fs,
                  writes, steps, failed, spawned, drained >>

(* handler.next() yields None: the while-let ends *)
HandlerEnd ==
  /\ handler = "running"
  /\ lastEvent' = "end"
  /\ handler' = "stopped"
  /\ UNCHANGED << pc, args, result, request, data, stdout, exitCode, fs,
                  writes, steps, failed, spawned, drained >>

Next ==
  \/ ParseArgs
  \/ ParseExit
  \/ Launch
  \/ SpawnHandler
  \/ NewPage
  \/ Goto
  \/ WaitForNavigation
  \/ Sleep
  \/ Screenshot
  \/ ExportBase64
  \/ ExportFile
  \/ MainPrint
  \/ MainReturn
  \/ HandlerOk
  \/ HandlerErr
  \/ HandlerEnd

Spec == Init /\ [][Next]_vars

(* ============================== properties ============================== *)
R == Unwrap(result)
Returned == IsSome(result)
Req == Unwrap(request)

(* the fixed sequence of steps of take_screenshot *)
Order == << "launch", "new_page", "navigate", "wait_for_navigation",
            "sleep", "capture", "export" >>

(* the step a failure belongs to *)
StepOf(f) ==
  CASE f = "build" -> "launch"
    [] f = "write" -> "export"
    [] OTHER -> f

(* the text that names each failing step in the error message *)
ErrorPrefix(f) ==
  CASE f = "launch" -> "Failed to launch browser: "
    [] f = "new_page" -> "Failed to create new page: "
    [] f = "navigate" -> "Failed to navigate to URL: "
    [] f = "wait_for_navigation" -> "Failed to wait for navigation: "
    [] f = "capture" -> "Failed to capture screenshot: "
    [] f = "write" -> "Failed to save screenshot to file: "

EchoesArgs(r, a) ==
  /\ r.url = a.url
  /\ r.width = a.width
  /\ r.height = a.height
  /\ r.full_page = a.full_page
  /\ r.format = a.format
  /\ r.quality = a.quality

(* C1: a returned Result has exactly one of base64_data and file_path      *)
(* populated when success is true, and neither when success is false.      *)
C1_ExactlyOnePayload ==
  Returned =>
    /\ R.success => (IsSome(R.base64_data) # IsSome(R.file_path))
    /\ ~R.success => (R.base64_data = None /\ R.file_path = None)

C1_Witness ==
  /\ Returned
  /\ R.success
  /\ IsSome(R.base64_data)
  /\ R.file_path = None
  /\ pc = "done"

(* C2: in every returned Result the error field is present if and only if  *)
(* success is false.                                                       *)
C2_ErrorIffFailure ==
  Returned => (IsSome(R.error) <=> ~R.success)

C2_Witness ==
  /\ Returned
  /\ ~R.success
  /\ IsSome(R.error)
  /\ failed = "navigate"

(* C3: every failure mode of every step of take_screenshot, the failure to *)
(* build the launch configuration included, yields a returned Result with  *)
(* success=false and an error message, and no panic leaves the function.   *)
C3_NeverFailsDestructively ==
  failed # "none" =>
    /\ pc # "panicked"
    /\ Returned
    /\ ~R.success
    /\ IsSome(R.error)

(* C4: when the capture request's format is Jpeg the configured quality is *)
(* the request's quality; when it is Png the request's quality is the      *)
(* default 90; the Result echoes the configured quality.                   *)
C4_QualityForwarded ==
  /\ IsSome(request) =>
       /\ Req.format = "Jpeg" => Req.quality = A.quality
       /\ Req.format = "Png" => Req.quality = DefaultQuality
  /\ Returned => R.quality = A.quality

(* C5: at most one file write per run; none when base64 output is          *)
(* requested; none when a step up to and including capture failed; a write *)
(* targets the configured output path.                                     *)
C5_FileWrites ==
  /\ Len(writes) <= 1
  /\ IsSome(args) /\ A.base64 => writes = <<>>
  /\ failed \in {"build", "launch", "new_page", "navigate",
                 "wait_for_navigation", "capture"} => writes = <<>>
  /\ \A i \in 1..Len(writes) : writes[i].path = A.output

C5_Witness ==
  /\ Len(writes) = 1
  /\ writes[1].path = A.output
  /\ ~A.base64
  /\ pc = "done"

(* C6: on success the reported size is the byte length of what was         *)
(* exported: the file at the output path exists and has that length, or    *)
(* decoding base64_data gives that many bytes.                             *)
C6_SizeMatchesExport ==
  Returned /\ R.success =>
    IF A.base64
      THEN /\ IsSome(R.base64_data)
           /\ Len(Decode(Unwrap(R.base64_data))) = R.size
      ELSE /\ IsSome(fs[A.output])
           /\ Len(Unwrap(fs[A.output])) = R.size

C6_Witness ==
  /\ Returned
  /\ R.success
  /\ A.base64
  /\ R.size = 2
  /\ Decode(Unwrap(R.base64_data)) = data

(* C7: a run that completes normally has printed exactly one document, the *)
(* Result, after take_screenshot returned, and exits with status 0 whether *)
(* the Result is a success or a failure; nothing is printed earlier.       *)
C7_OneDocumentExitZero ==
  /\ pc = "done" =>
       /\ exitCode = 0
       /\ Returned
       /\ stdout = << ToJson(R) >>
  /\ IsSome(args) /\ pc # "return" /\ pc # "done" => stdout = <<>>
  /\ IsSome(args) /\ stdout # <<>> => Returned
  /\ Len(stdout) <= 1

C7_Witness ==
  /\ pc = "done"
  /\ ~R.success
  /\ exitCode = 0
  /\ Len(stdout) = 1

(* C8: the steps are started in the fixed order, each at most once, a step *)
(* only after all earlier ones succeeded, and none after a failing step.   *)
C8_StepOrder ==
  /\ Len(steps) <= Len(Order)
  /\ steps = SubSeq(Order, 1, Len(steps))
  /\ failed # "none" => steps[Len(steps)] = StepOf(failed)
  /\ Returned /\ failed = "none" => steps = Order

C8_Witness ==
  /\ steps = Order
  /\ failed = "none"
  /\ pc = "done"

(* C9: a failure Result echoes the configuration and carries the message   *)
(* of the failing step; its size is 0 for launch, new page, navigate, wait *)
(* and capture failures, and the captured byte count, with no file_path,   *)
(* for a file write failure.                                               *)
C9_FailureResult ==
  Returned /\ ~R.success =>
    /\ EchoesArgs(R, A)
    /\ failed \in {"launch", "new_page", "navigate", "wait_for_navigation",
                   "capture", "write"}
    /\ \E e \in Causes : R.error = Some(ErrorPrefix(failed) \o e)
    /\ failed # "write" => R.size = 0
    /\ failed = "write" => (R.size = Len(data) /\ R.file_path = None)

C9_Witness ==
  /\ Returned
  /\ ~R.success
  /\ failed = "write"
  /\ R.size = MaxLen

(* the Result as the main steps' outcomes alone determine it *)
ResultOfSteps(a, f, d, e) ==
  IF f = "none"
    THEN IF a.base64 THEN Base64Result(a, d) ELSE FileResult(a, d)
    ELSE Failure(a, IF f = "write" THEN Len(d) ELSE 0,
                 Format(ErrorPrefix(f), e))

MainStep ==
  \/ Launch
  \/ SpawnHandler
  \/ NewPage
  \/ Goto
  \/ WaitForNavigation
  \/ Sleep
  \/ Screenshot
  \/ ExportBase64
  \/ ExportFile
  \/ MainPrint
  \/ MainReturn

LaunchSucceeded == Len(steps) >= 1 /\ failed \notin {"build", "launch"} /\ pc # "launch"

(* C10: one handler task is spawned in a run whose launch succeeded, after *)
(* the launch and before the new-page step, and none otherwise; it stops   *)
(* only at an error or the end of the event stream; the main sequence is   *)
(* never blocked on it, and whatever the task does the Result is the one   *)
(* the main steps' outcomes determine.                                     *)
C10_HandlerDetached ==
  /\ spawned <= 1
  /\ spawned = 1 => LaunchSucceeded
  /\ LaunchSucceeded /\ pc # "spawn" => spawned = 1
  /\ Len(steps) >= 2 => spawned = 1
  /\ (handler = "unspawned") <=> (spawned = 0)
  /\ handler = "stopped" => lastEvent \in {"err", "end"}
  /\ lastEvent \in {"err", "end"} => handler = "stopped"
  /\ pc \notin {"parse", "clap_exit", "done", "panicked"} => ENABLED MainStep
  /\ Returned => \E e \in Causes : R = ResultOfSteps(A, failed, data, e)

C10_Witness ==
  /\ pc = "done"
  /\ R.success
  /\ handler = "stopped"
  /\ lastEvent = "err"
  /\ spawned = 1

====
